---- MODULE Spec2Model ----
(***************************************************************************)
(* Model of papers-mcp: the extract-paper pipeline.                        *)
(*                                                                         *)
(*   fetchAr5iv              src/ar5iv-to-md.mjs 11-43                     *)
(*   processInlineContent    src/ar5iv-to-md.mjs 137-191                   *)
(*   processSectionContent   src/ar5iv-to-md.mjs 229-272                   *)
(*   extract* / convert      src/ar5iv-to-md.mjs 277-434                   *)
(*   CLI main                src/ar5iv-to-md.mjs 439-478                   *)
(*   extract-paper tool      src/unnamed/part_002 50-85                    *)
(*                                                                         *)
(* A text is a sequence of string pieces whose concatenation is the text.  *)
(* Markdown and DOM text are kept at character granularity (every piece is *)
(* one character), so that trimming, line splitting and prefix tests are   *)
(* computed on the characters; error messages are kept as phrases.         *)
(***************************************************************************)
EXTENDS Integers, Sequences, FiniteSets, TLC

-----------------------------------------------------------------------------
(* Strings                                                                 *)

\* JavaScript white space as matched by String.prototype.trim and by \s
WS == {" ", "\n", "\t"}

RECURSIVE TrimStart(_)
TrimStart(s) ==
  IF s = <<>> THEN <<>>
  ELSE IF Head(s) \in WS THEN TrimStart(Tail(s)) ELSE s

RECURSIVE TrimEnd(_)
TrimEnd(s) ==
  IF s = <<>> THEN <<>>
  ELSE IF s[Len(s)] \in WS THEN TrimEnd(SubSeq(s, 1, Len(s) - 1)) ELSE s

\* String.prototype.trim
Trim(s) == TrimEnd(TrimStart(s))

\* s.replace(/\s+/g, ' '): every maximal run of white space becomes one space
RECURSIVE CollapseWS(_)
CollapseWS(s) ==
  IF s = <<>> THEN <<>>
  ELSE IF Head(s) \in WS
       THEN <<" ">> \o CollapseWS(TrimStart(s))
       ELSE <<Head(s)>> \o CollapseWS(Tail(s))

\* s.replace(/\n/g, ' ')
NewlinesToSpaces(s) == [i \in 1..Len(s) |-> IF s[i] = "\n" THEN " " ELSE s[i]]

\* s.replace(/\|/g, '\\|')
RECURSIVE EscapePipes(_)
EscapePipes(s) ==
  IF s = <<>> THEN <<>>
  ELSE (IF Head(s) = "|" THEN <<"\\", "|">> ELSE <<Head(s)>>) \o EscapePipes(Tail(s))

\* s.substring(0, n)
Substring0(s, n) == SubSeq(s, 1, IF Len(s) < n THEN Len(s) ELSE n)

\* s.startsWith(p)
StartsWith(s, p) == Len(p) <= Len(s) /\ SubSeq(s, 1, Len(p)) = p

\* concatenation of a sequence of texts
RECURSIVE Concat(_)
Concat(ss) == IF ss = <<>> THEN <<>> ELSE Head(ss) \o Concat(Tail(ss))

\* Array.prototype.join
RECURSIVE Join(_, _)
Join(ss, sep) ==
  IF ss = <<>> THEN <<>>
  ELSE IF Len(ss) = 1 THEN ss[1]
  ELSE ss[1] \o sep \o Join(Tail(ss), sep)

\* the lines of a text: s.split('\n')
RECURSIVE SplitLines(_, _)
SplitLines(s, cur) ==
  IF s = <<>> THEN <<cur>>
  ELSE IF Head(s) = "\n" THEN <<cur>> \o SplitLines(Tail(s), <<>>)
  ELSE SplitLines(Tail(s), Append(cur, Head(s)))

Lines(s) == SplitLines(s, <<>>)

\* '#'.repeat(n)
Hashes(n) == [i \in 1..n |-> "#"]

-----------------------------------------------------------------------------
(* The document tree built by JSDOM.  A node is a text node or an element;  *)
(* tag names are kept in lower case (the code compares tagName against the *)
(* upper-case HTML names and against 'math' after toLowerCase()).  An      *)
(* attribute that is absent reads as the empty text, which is what every   *)
(* use in the code (getAttribute(..) || '') makes of it.                   *)

Txt(s) ==
  [kind |-> "text", tag |-> "", cls |-> {}, href |-> <<>>, alttext |-> <<>>,
   src |-> <<>>, alt |-> <<>>, text |-> s, kids |-> <<>>]

El(tag, cls, kids) ==
  [kind |-> "elem", tag |-> tag, cls |-> cls, href |-> <<>>, alttext |-> <<>>,
   src |-> <<>>, alt |-> <<>>, text |-> <<>>, kids |-> kids]

IsElem(n) == n.kind = "elem"

\* element.children: the child elements
Children(n) == SelectSeq(n.kids, IsElem)

\* node.textContent
RECURSIVE textContent(_)
textContent(n) ==
  IF n.kind = "text" THEN n.text
  ELSE Concat([i \in 1..Len(n.kids) |-> textContent(n.kids[i])])

\* the descendant elements of n in document order, each with its parent
RECURSIVE Descendants(_)
Descendants(n) ==
  Concat([i \in 1..Len(n.kids) |->
            IF IsElem(n.kids[i])
            THEN <<[node |-> n.kids[i], parent |-> n]>> \o Descendants(n.kids[i])
            ELSE <<>>])

\* a compound selector tag.class ("" matches any tag, "" any class)
Matches(n, tag, class) ==
  /\ IsElem(n)
  /\ tag = "" \/ n.tag = tag
  /\ class = "" \/ class \in n.cls

\* element.querySelectorAll('tag.class')
querySelectorAll(n, tag, class) ==
  LET hits == SelectSeq(Descendants(n), LAMBDA d : Matches(d.node, tag, class))
  IN  [i \in 1..Len(hits) |-> hits[i].node]

\* element.querySelector('tag.class'): <<>> when nothing matches, else <<el>>
querySelector(n, tag, class) ==
  LET all == querySelectorAll(n, tag, class)
  IN  IF all = <<>> THEN <<>> ELSE <<all[1]>>

\* querySelectorAll('ptag.pclass > tag.class')
querySelectorAllChild(n, ptag, pclass, tag, class) ==
  LET hits == SelectSeq(Descendants(n),
                LAMBDA d : Matches(d.node, tag, class) /\ Matches(d.parent, ptag, pclass))
  IN  [i \in 1..Len(hits) |-> hits[i].node]

-----------------------------------------------------------------------------
(* Inline and block rendering                                              *)

FootnoteLimit == 50

\* the literal 'https://ar5iv.labs.arxiv.org' prefixed to site-relative images
Ar5ivHost ==
  <<"h","t","t","p","s",":","/","/","a","r","5","i","v",".","l","a","b","s",
    ".","a","r","x","i","v",".","o","r","g">>

\* the one-character piece U+0060 (grave accent), written by name
Backtick == "GRAVE"

\* the template [${text}](${href})
MdLink(text, href) == <<"[">> \o text \o <<"]", "(">> \o href \o <<")">>

processMath(element) ==
  IF element.tag = "math"
  THEN <<"$">> \o element.alttext \o <<"$">>
  ELSE LET math == querySelector(element, "math", "")
       IN  IF math # <<>> THEN <<"$">> \o math[1].alttext \o <<"$">> ELSE <<>>

\* the trimmed texts of all the pointers, the empty ones kept
citeTextsUnfiltered(el) ==
  LET refs  == SelectSeq(Descendants(el),
                 LAMBDA d : Matches(d.node, "a", "ltx_ref") \/ Matches(d.node, "span", "ltx_ref"))
  IN  [i \in 1..Len(refs) |-> Trim(textContent(refs[i].node))]

\* el.querySelectorAll('a.ltx_ref, span.ltx_ref'), trimmed texts, empty ones dropped
citeTexts(el) ==
  LET refs  == SelectSeq(Descendants(el),
                 LAMBDA d : Matches(d.node, "a", "ltx_ref") \/ Matches(d.node, "span", "ltx_ref"))
      texts == [i \in 1..Len(refs) |-> Trim(textContent(refs[i].node))]
  IN  SelectSeq(texts, LAMBDA t : t # <<>>)

RECURSIVE processInlineContent(_)
processInlineNode(node) ==
  IF node.kind = "text" THEN node.text
  ELSE IF node.tag = "math" \/ "ltx_Math" \in node.cls THEN processMath(node)
  ELSE IF "ltx_cite" \in node.cls
       THEN <<"[">> \o Join(citeTexts(node), <<",", " ">>) \o <<"]">>
  ELSE IF "ltx_ref" \in node.cls THEN MdLink(textContent(node), node.href)
  ELSE IF "ltx_note" \in node.cls
       THEN LET noteContent == Trim(textContent(node))
            IN  IF noteContent # <<>>
                THEN <<" ", "[", "^">> \o Substring0(noteContent, FootnoteLimit) \o <<"]">>
                ELSE <<>>
  ELSE IF node.tag = "a" THEN MdLink(textContent(node), node.href)
  ELSE IF node.tag = "br" THEN <<"\n">>
  ELSE IF "ltx_font_bold" \in node.cls \/ node.tag \in {"b", "strong"}
       THEN <<"*", "*">> \o processInlineContent(node) \o <<"*", "*">>
  ELSE IF "ltx_font_italic" \in node.cls \/ node.tag \in {"i", "em"}
       THEN <<"*">> \o processInlineContent(node) \o <<"*">>
  ELSE IF node.tag = "code" THEN <<Backtick>> \o textContent(node) \o <<Backtick>>
  ELSE processInlineContent(node)

processInlineContent(element) ==
  Concat([i \in 1..Len(element.kids) |-> processInlineNode(element.kids[i])])

\* tag.replace(/^\((.+)\)$/, '$1'): '.' matches no line terminator
StripParens(tag) ==
  IF /\ Len(tag) >= 3
     /\ tag[1] = "(" /\ tag[Len(tag)] = ")"
     /\ \A i \in 2..(Len(tag) - 1) : tag[i] # "\n"
  THEN SubSeq(tag, 2, Len(tag) - 1)
  ELSE tag

processEquation(element) ==
  LET math == querySelector(element, "math", "")
  IN  IF math # <<>>
      THEN LET tagEl == querySelector(element, "", "ltx_tag")
               tag   == StripParens(IF tagEl # <<>> THEN Trim(textContent(tagEl[1])) ELSE <<>>)
           IN  <<"\n", "$", "$", "\n">> \o math[1].alttext \o <<"\n", "$", "$">>
                 \o (IF tag # <<>> THEN <<" ", "(">> \o tag \o <<")">> ELSE <<>>)
                 \o <<"\n">>
      ELSE <<>>

processFigure(figure) ==
  LET img     == querySelector(figure, "img", "")
      caption == querySelector(figure, "figcaption", "")
      imgMd   == IF img # <<>>
                 THEN LET src     == img[1].src
                          alt     == IF img[1].alt # <<>> THEN img[1].alt
                                     ELSE <<"F","i","g","u","r","e">>
                          fullSrc == IF StartsWith(src, <<"/">>) THEN Ar5ivHost \o src ELSE src
                      IN  <<"!", "[">> \o alt \o <<"]", "(">> \o fullSrc \o <<")", "\n">>
                 ELSE <<>>
      capMd   == IF caption # <<>>
                 THEN <<"\n", "*">> \o Trim(processInlineContent(caption[1])) \o <<"*", "\n">>
                 ELSE <<>>
  IN  <<"\n">> \o imgMd \o capMd \o <<"\n">>

\* the cells of one row: row.querySelectorAll('td, th'), each rendered
cellTexts(row) ==
  LET cells == SelectSeq(Descendants(row),
                 LAMBDA d : Matches(d.node, "td", "") \/ Matches(d.node, "th", ""))
  IN  [i \in 1..Len(cells) |->
         Trim(NewlinesToSpaces(EscapePipes(processInlineContent(cells[i].node))))]

\* '| ' + cells.join(' | ') + ' |\n'
PipeRow(cells) == <<"|", " ">> \o Join(cells, <<" ", "|", " ">>) \o <<" ", "|", "\n">>

\* a separator row after every row
processTableEveryRow(table) ==
  LET rows == querySelectorAll(table, "tr", "")
  IN  IF Len(rows) = 0 THEN <<>>
      ELSE <<"\n">>
           \o Concat([i \in 1..Len(rows) |->
                LET texts == cellTexts(rows[i])
                IN  PipeRow(texts) \o PipeRow([j \in 1..Len(texts) |-> <<"-", "-", "-">>])])
           \o <<"\n">>

processTable(table) ==
  LET rows == querySelectorAll(table, "tr", "")
  IN  IF Len(rows) = 0 THEN <<>>
      ELSE <<"\n">>
           \o Concat([i \in 1..Len(rows) |->
                LET texts == cellTexts(rows[i])
                IN  PipeRow(texts)
                    \o (IF i = 1
                        THEN PipeRow([j \in 1..Len(texts) |-> <<"-", "-", "-">>])
                        ELSE <<>>)])
           \o <<"\n">>

\* the TABLE branch shared by processParagraph and processSectionContent
processTableLike(child) ==
  IF "ltx_equation" \in child.cls \/ "ltx_eqn_table" \in child.cls THEN processEquation(child)
  ELSE IF "ltx_tabular" \in child.cls THEN processTable(child)
  ELSE <<>>

processParagraph(para) ==
  LET kids == Children(para)
      md   == Concat([i \in 1..Len(kids) |->
                LET child == kids[i]
                IN  IF child.tag = "p" /\ "ltx_p" \in child.cls
                    THEN processInlineContent(child) \o <<"\n", "\n">>
                    ELSE IF child.tag = "table" THEN processTableLike(child)
                    ELSE IF child.tag = "figure" /\ "ltx_figure" \in child.cls
                         THEN processFigure(child)
                    ELSE <<>>])
  IN  IF md = <<>> THEN processInlineContent(para) \o <<"\n", "\n">> ELSE md

RECURSIVE processSectionContent(_, _)
\* a subsection-of-subsection taken one level down only
processSectionChildOneDown(child, level) ==
  IF child.tag \in {"h1", "h2", "h3", "h4", "h5", "h6"}
  THEN IF "ltx_title" \in child.cls
       THEN Hashes(level) \o <<" ">> \o Trim(processInlineContent(child)) \o <<"\n", "\n">>
       ELSE <<>>
  ELSE IF "ltx_para" \in child.cls THEN processParagraph(child)
  ELSE IF "ltx_subsection" \in child.cls THEN processSectionContent(child, level + 1)
  ELSE IF "ltx_subsubsection" \in child.cls THEN processSectionContent(child, level + 1)
  ELSE IF child.tag = "figure" /\ "ltx_figure" \in child.cls THEN processFigure(child)
  ELSE IF child.tag = "table" THEN processTableLike(child)
  ELSE IF "ltx_theorem" \in child.cls \/ "ltx_proof" \in child.cls
       THEN LET titleEl == querySelector(child, "", "ltx_title")
                title   == IF titleEl # <<>> THEN Trim(processInlineContent(titleEl[1])) ELSE <<>>
                paras   == querySelectorAll(child, "", "ltx_para")
            IN  (IF title # <<>> THEN <<"\n", "*", "*">> \o title \o <<"*", "*", "\n", "\n">>
                 ELSE <<>>)
                \o Concat([i \in 1..Len(paras) |-> processParagraph(paras[i])])
  ELSE IF child.tag = "div" /\ "ltx_logical-block" \in child.cls
       THEN processSectionContent(child, level)
  ELSE <<>>

processSectionChild(child, level) ==
  IF child.tag \in {"h1", "h2", "h3", "h4", "h5", "h6"}
  THEN IF "ltx_title" \in child.cls
       THEN Hashes(level) \o <<" ">> \o Trim(processInlineContent(child)) \o <<"\n", "\n">>
       ELSE <<>>
  ELSE IF "ltx_para" \in child.cls THEN processParagraph(child)
  ELSE IF "ltx_subsection" \in child.cls THEN processSectionContent(child, level + 1)
  ELSE IF "ltx_subsubsection" \in child.cls THEN processSectionContent(child, level + 2)
  ELSE IF child.tag = "figure" /\ "ltx_figure" \in child.cls THEN processFigure(child)
  ELSE IF child.tag = "table" THEN processTableLike(child)
  ELSE IF "ltx_theorem" \in child.cls \/ "ltx_proof" \in child.cls
       THEN LET titleEl == querySelector(child, "", "ltx_title")
                title   == IF titleEl # <<>> THEN Trim(processInlineContent(titleEl[1])) ELSE <<>>
                paras   == querySelectorAll(child, "", "ltx_para")
            IN  (IF title # <<>> THEN <<"\n", "*", "*">> \o title \o <<"*", "*", "\n", "\n">>
                 ELSE <<>>)
                \o Concat([i \in 1..Len(paras) |-> processParagraph(paras[i])])
  ELSE IF child.tag = "div" /\ "ltx_logical-block" \in child.cls
       THEN processSectionContent(child, level)
  ELSE <<>>

processSectionContent(section, level) ==
  LET kids == Children(section)
  IN  Concat([i \in 1..Len(kids) |-> processSectionChild(kids[i], level)])

-----------------------------------------------------------------------------
(* Semantic extraction                                                     *)

\* the heading depth extractBody and extractAppendix start their sections at
SectionLevel == 2

extractTitle(doc) ==
  LET titleEl == querySelector(doc, "h1", "ltx_title_document")
  IN  IF titleEl # <<>> THEN Trim(processInlineContent(titleEl[1])) ELSE <<>>

extractAuthors(doc) ==
  LET authorsEl == querySelector(doc, "", "ltx_authors")
  IN  IF authorsEl # <<>> THEN CollapseWS(Trim(processInlineContent(authorsEl[1]))) ELSE <<>>

extractAbstract(doc) ==
  LET abstractEl == querySelector(doc, "", "ltx_abstract")
  IN  IF abstractEl # <<>>
      THEN LET pEl == querySelector(abstractEl[1], "p", "ltx_p")
           IN  IF pEl # <<>> THEN Trim(processInlineContent(pEl[1])) ELSE <<>>
      ELSE <<>>

extractBody(doc) ==
  LET sections == querySelectorAllChild(doc, "article", "ltx_document", "section", "ltx_section")
  IN  Concat([i \in 1..Len(sections) |-> processSectionContent(sections[i], SectionLevel)])

extractAppendix(doc) ==
  LET appendices == querySelectorAllChild(doc, "article", "ltx_document", "section", "ltx_appendix")
  IN  Concat([i \in 1..Len(appendices) |-> processSectionContent(appendices[i], SectionLevel)])

\* '## References\n\n'
ReferencesHeading == <<"#","#"," ","R","e","f","e","r","e","n","c","e","s","\n","\n">>

\* tag.replace(/^\[|\]$/g, ''): a leading '[' and a trailing ']' are removed
StripBrackets(tag) ==
  LET a == IF tag # <<>> /\ Head(tag) = "[" THEN Tail(tag) ELSE tag
  IN  IF a # <<>> /\ a[Len(a)] = "]" THEN SubSeq(a, 1, Len(a) - 1) ELSE a

bibItem(item) ==
  LET tagA   == querySelector(item, "span", "ltx_tag_bibitem")
      tagEl  == IF tagA # <<>> THEN tagA ELSE querySelector(item, "span", "ltx_bibtag")
      tag    == StripBrackets(IF tagEl # <<>> THEN Trim(textContent(tagEl[1])) ELSE <<>>)
      blocks == querySelectorAll(item, "span", "ltx_bibblock")
      texts  == SelectSeq([i \in 1..Len(blocks) |-> Trim(processInlineContent(blocks[i]))],
                          LAMBDA t : t # <<>>)
  IN  (IF tag # <<>> THEN <<"[">> \o tag \o <<"]", " ">> ELSE <<>>)
      \o Join(texts, <<" ">>) \o <<"\n", "\n">>

extractReferences(doc) ==
  LET bibSection == querySelector(doc, "section", "ltx_bibliography")
  IN  IF bibSection = <<>> THEN <<>>
      ELSE LET bibList == querySelector(bibSection[1], "ul", "ltx_biblist")
           IN  IF bibList = <<>> THEN ReferencesHeading
               ELSE LET items == querySelectorAll(bibList[1], "li", "ltx_bibitem")
                    IN  ReferencesHeading
                        \o Concat([i \in 1..Len(items) |-> bibItem(items[i])])

-----------------------------------------------------------------------------
(* Level assembly: the body of convertAr5ivToMarkdown after the fetch.     *)
(* md is kept as the sequence of the strings the md += statements append,  *)
(* each labelled with the region its statement belongs to; the Markdown is *)
(* their concatenation.                                                    *)

\* the value a missing argument has
Undefined == "undefined"

Levels == {"abstract", "body", "appendix", "all"}

Chunk(region, text) == [region |-> region, text |-> text]

\* md declared outside the function and never cleared
NewMdCarried(last) == last

\* 'let md = ""'
NewMd(last) == <<>>

\* '## Abstract\n\n'
AbstractHeading == <<"#","#"," ","A","b","s","t","r","a","c","t","\n","\n">>

\* '**Authors:** '
AuthorsLabel == <<"*","*","A","u","t","h","o","r","s",":","*","*"," ">>

\* '---\n\n# Appendix\n\n'
AppendixRule == <<"-","-","-","\n","\n","#"," ","A","p","p","e","n","d","i","x","\n","\n">>

\* the title line without the blank line after it
titleChunkNoBlank(doc) ==
  LET title == extractTitle(doc)
  IN  IF title # <<>> THEN <<Chunk("title", <<"#", " ">> \o title \o <<"\n">>)>> ELSE <<>>

titleChunk(doc) ==
  LET title == extractTitle(doc)
  IN  IF title # <<>> THEN <<Chunk("title", <<"#", " ">> \o title \o <<"\n", "\n">>)>> ELSE <<>>

\* the authors line at every level
authorsChunkAlways(doc, part) ==
  LET authors == extractAuthors(doc)
  IN  IF authors # <<>>
      THEN <<Chunk("authors", AuthorsLabel \o authors \o <<"\n", "\n">>)>>
      ELSE <<>>

authorsChunk(doc, part) ==
  LET authors == extractAuthors(doc)
  IN  IF authors # <<>> /\ part # "appendix"
      THEN <<Chunk("authors", AuthorsLabel \o authors \o <<"\n", "\n">>)>>
      ELSE <<>>

\* the abstract heading whether or not there is an abstract
abstractChunkAlways(doc) ==
  <<Chunk("abstract", AbstractHeading \o extractAbstract(doc) \o <<"\n", "\n">>)>>

\* the 'if (abstract) md += ...' of the body and all cases
abstractChunk(doc) ==
  LET abstract == extractAbstract(doc)
  IN  IF abstract # <<>>
      THEN <<Chunk("abstract", AbstractHeading \o abstract \o <<"\n", "\n">>)>>
      ELSE <<>>

caseAbstract(doc) ==
  <<Chunk("abstract", AbstractHeading \o extractAbstract(doc) \o <<"\n">>)>>

\* level body without the abstract
caseBodyNoAbstract(doc) == <<Chunk("body", extractBody(doc))>>

caseBody(doc) == abstractChunk(doc) \o <<Chunk("body", extractBody(doc))>>

caseAppendix(doc) == <<Chunk("appendix", extractAppendix(doc))>>

\* level all with the appendix ahead of the references
caseAllAppendixFirst(doc) ==
  LET appendix == extractAppendix(doc)
  IN  abstractChunk(doc)
      \o <<Chunk("body", extractBody(doc))>>
      \o (IF appendix # <<>> THEN <<Chunk("appendix", AppendixRule \o appendix)>> ELSE <<>>)
      \o <<Chunk("references", extractReferences(doc))>>

caseAll(doc) ==
  LET appendix == extractAppendix(doc)
  IN  abstractChunk(doc)
      \o <<Chunk("body", extractBody(doc))>>
      \o <<Chunk("references", extractReferences(doc))>>
      \o (IF appendix # <<>> THEN <<Chunk("appendix", AppendixRule \o appendix)>> ELSE <<>>)

\* the switch on part
switchPart(doc, part) ==
  IF part = "abstract" THEN caseAbstract(doc)
  ELSE IF part = "body" THEN caseBody(doc)
  ELSE IF part = "appendix" THEN caseAppendix(doc)
  ELSE caseAll(doc)

\* the default parameter 'part = "all"'
defaultPart(part) == IF part = Undefined THEN "all" ELSE part

\* convertAr5ivToMarkdown once the HTML is there; last is what the previous
\* conversion left in md
assemble(last, doc, partArg) ==
  LET part == defaultPart(partArg)
  IN  NewMd(last) \o titleChunk(doc) \o authorsChunk(doc, part) \o switchPart(doc, part)

\* the string convertAr5ivToMarkdown returns
Markdown(chunks) == Concat([i \in 1..Len(chunks) |-> chunks[i].text])

-----------------------------------------------------------------------------
(* Documents the mirrors may serve                                         *)

\* number of top-level body sections a served document has at most
MaxSections == 2

P(text) == El("p", {"ltx_p"}, <<Txt(text)>>)

Para(text) == El("div", {"ltx_para"}, <<P(text)>>)

TitleOptions ==
  { <<>>,
    <<El("h1", {"ltx_title", "ltx_title_document"}, <<Txt(<<"T">>)>>)>>,
    <<El("h1", {"ltx_title", "ltx_title_document"},
         <<Txt(<<"A","p","p","e","n","d","i","x">>)>>)>>,
    <<El("h1", {"ltx_title", "ltx_title_document"},
         <<Txt(<<"A">>), El("br", {"ltx_break"}, <<>>), Txt(<<"B">>)>>)>>,
    <<El("h1", {"ltx_title", "ltx_title_document"}, <<Txt(<<" ", "\n">>)>>)>> }

AuthorsOptions ==
  { <<>>,
    <<El("div", {"ltx_authors"},
         <<Txt(<<"\n">>),
           El("span", {"ltx_creator", "ltx_role_author"},
              <<El("span", {"ltx_personname"}, <<Txt(<<"A", "n">>)>>)>>),
           Txt(<<"\n", " ">>),
           El("span", {"ltx_creator", "ltx_role_author"},
              <<El("span", {"ltx_personname"}, <<Txt(<<"B", "o">>)>>)>>),
           Txt(<<"\n">>)>>)>> }

AbstractOptions ==
  { <<>>,
    <<El("div", {"ltx_abstract"},
         <<El("h6", {"ltx_title", "ltx_title_abstract"}, <<Txt(<<"A","b","s","t","r","a","c","t">>)>>),
           P(<<"W", "e", " ", "d", "o", ".", "\n">>)>>)>>,
    <<El("div", {"ltx_abstract"},
         <<El("h6", {"ltx_title", "ltx_title_abstract"}, <<Txt(<<"A","b","s","t","r","a","c","t">>)>>)>>)>> }

\* the i-th top-level section: a plain one, one with a subsection, one with a
\* subsubsection inside a logical block, in turn
Section(i) ==
  LET heading == El("h2", {"ltx_title", "ltx_title_section"}, <<Txt(<<"S", ToString(i)>>)>>)
  IN  IF i % 3 = 1
      THEN El("section", {"ltx_section"}, <<heading, Para(<<"x">>)>>)
      ELSE IF i % 3 = 2
      THEN El("section", {"ltx_section"},
              <<heading,
                El("section", {"ltx_subsection"},
                   <<El("h3", {"ltx_title", "ltx_title_subsection"}, <<Txt(<<"U">>)>>),
                     Para(<<"y">>)>>)>>)
      ELSE El("section", {"ltx_section"},
              <<heading,
                El("div", {"ltx_logical-block"},
                   <<El("section", {"ltx_subsubsection"},
                        <<El("h4", {"ltx_title", "ltx_title_subsubsection"}, <<Txt(<<"V">>)>>),
                          Para(<<"z">>)>>)>>)>>)

BodyOptions == { [i \in 1..n |-> Section(i)] : n \in 0..MaxSections }

BibliographyOptions ==
  { <<>>,
    <<El("section", {"ltx_bibliography"},
         <<El("h2", {"ltx_title", "ltx_title_bibliography"}, <<Txt(<<"R","e","f","s">>)>>),
           El("ul", {"ltx_biblist"},
              <<El("li", {"ltx_bibitem"},
                   <<El("span", {"ltx_tag", "ltx_tag_bibitem"}, <<Txt(<<"[", "1", "]">>)>>),
                     El("span", {"ltx_bibblock"}, <<Txt(<<"R", ".">>)>>)>>)>>)>>)>>,
    <<El("section", {"ltx_bibliography"},
         <<El("h2", {"ltx_title", "ltx_title_bibliography"}, <<Txt(<<"R","e","f","s">>)>>)>>)>> }

\* no appendix; an appendix section; an appendix section that renders to nothing
AppendixOptions ==
  { <<>>,
    <<El("section", {"ltx_appendix"},
         <<El("h2", {"ltx_title", "ltx_title_appendix"}, <<Txt(<<"A", "1">>)>>),
           Para(<<"p">>)>>)>>,
    <<El("section", {"ltx_appendix"}, <<El("h2", {}, <<Txt(<<"A", "1">>)>>)>>)>> }

Document(title, authors, abstract, body, bibliography, appendix) ==
  El("#document", {},
     <<El("html", {},
          <<El("body", {},
               <<El("article", {"ltx_document"},
                    title \o authors \o abstract \o body \o bibliography \o appendix)>>)>>)>>)

Documents ==
  { Document(t, a, ab, b, bib, app) :
      t \in TitleOptions, a \in AuthorsOptions, ab \in AbstractOptions,
      b \in BodyOptions, bib \in BibliographyOptions, app \in AppendixOptions }

-----------------------------------------------------------------------------
(* Requests and the fetch                                                  *)

\* number of requests that may be in flight together in SpecConcurrent
NumRequests == 2

Requests == 1..NumRequests

PaperId == <<"7">>

PrefixedId == <<"a","r","X","i","v",":","7">>

HelpFlag == <<"-","-","h","e","l","p">>

\* the flags /i of /^arxiv:/i folds
LowerChar(c) ==
  CASE c = "A" -> "a" [] c = "R" -> "r" [] c = "X" -> "x" [] c = "I" -> "i"
    [] c = "V" -> "v" [] OTHER -> c

\* arxivId.replace(/^arxiv:/i, '')
normalizedId(arxivId) ==
  IF /\ Len(arxivId) >= 6
     /\ [i \in 1..6 |-> LowerChar(arxivId[i])] = <<"a","r","x","i","v",":">>
  THEN SubSeq(arxivId, 7, Len(arxivId))
  ELSE arxivId

\* the schema defaulting to all
schemaLevelAll(level) == IF level = Undefined THEN "all" ELSE level

\* z.enum([...]).optional().default('body')
schemaLevel(level) == IF level = Undefined THEN "body" ELSE level

\* args[1] || 'all'
cliPart(level) == IF level = Undefined \/ level = "" THEN "all" ELSE level

validParts == {"all", "abstract", "body", "appendix"}

NoRequest == [entry |-> "none", hasId |-> FALSE, arxivId |-> <<>>, level |-> Undefined]

ToolRequests ==
  [entry : {"tool"}, hasId : {TRUE}, arxivId : {PaperId, PrefixedId},
   level : Levels \cup {Undefined}]

ApiRequests ==
  [entry : {"api"}, hasId : {TRUE}, arxivId : {PaperId},
   level : Levels \cup {Undefined, "bogus"}]

CliRequests ==
  [entry : {"cli"}, hasId : {TRUE}, arxivId : {PaperId},
   level : Levels \cup {Undefined, "bogus", "", "-h"}]
  \cup [entry : {"cli"}, hasId : {TRUE}, arxivId : {HelpFlag}, level : {Undefined}]
  \cup [entry : {"cli"}, hasId : {FALSE}, arxivId : {<<>>}, level : {Undefined}]

AllRequests == ToolRequests \cup ApiRequests \cup CliRequests

\* the identifier and the part a request hands to convertAr5ivToMarkdown
convertId(q) == IF q.entry = "tool" THEN normalizedId(q.arxivId) ELSE q.arxivId

convertPart(q) ==
  IF q.entry = "tool" THEN schemaLevel(q.level)
  ELSE IF q.entry = "cli" THEN cliPart(q.level)
  ELSE q.level

AR5IV_BASE == <<"https://ar5iv.labs.arxiv.org/html/">>

ARXIV_HTML_BASE == <<"https://arxiv.org/html/">>

\* statuses the mirrors answer with; ar5iv is fetched with redirect: 'manual'
PrimaryStatuses == {200, 301, 307, 404, 503}

SecondaryStatuses == {200, 404, 503}

\* Response.ok
ok(status) == 200 <= status /\ status <= 299

\* the status ar5iv answers with when it does not have the paper
isUnavailable(status) == status = 307

NoResponse == [got |-> "none", status |-> 0]

Response(status) == [got |-> "response", status |-> status]

Rejected == [got |-> "rejected", status |-> 0]

notAvailableMessage(status) ==
  <<"Paper HTML not available: ar5iv redirected, arxiv.org/html returned ", ToString(status)>>

failedToFetchMessage(url, status) == <<"Failed to fetch ">> \o url \o <<": ", ToString(status)>>

\* the TypeError fetch rejects with when the request cannot be made
fetchFailedMessage == <<"fetch failed">>

\* the TypeError Response.text rejects with when the body cannot be read
bodyFailedMessage == <<"terminated">>

-----------------------------------------------------------------------------
(* Results of the three entry points                                       *)

NoResult == [channel |-> "none", text |-> <<>>, isError |-> FALSE, exit |-> "none"]

\* the tool framing the Markdown with a line of its own
deliverFramed(entry, markdown) ==
  IF entry = "tool"
  THEN [channel |-> "content", text |-> <<"Paper content:", "\n">> \o markdown,
        isError |-> FALSE, exit |-> "none"]
  ELSE IF entry = "cli"
  THEN [channel |-> "stdout", text |-> markdown \o <<"\n">>, isError |-> FALSE, exit |-> "0"]
  ELSE [channel |-> "return", text |-> markdown, isError |-> FALSE, exit |-> "none"]

\* what an entry point does with the Markdown
deliver(entry, markdown) ==
  IF entry = "tool"
  THEN [channel |-> "content", text |-> markdown, isError |-> FALSE, exit |-> "none"]
  ELSE IF entry = "cli"
  THEN [channel |-> "stdout", text |-> markdown \o <<"\n">>, isError |-> FALSE, exit |-> "0"]
  ELSE [channel |-> "return", text |-> markdown, isError |-> FALSE, exit |-> "none"]

\* what an entry point does with an error thrown by convertAr5ivToMarkdown
deliverError(entry, message) ==
  IF entry = "tool"
  THEN [channel |-> "content", text |-> <<"Error fetching paper: ">> \o message,
        isError |-> TRUE, exit |-> "none"]
  ELSE IF entry = "cli"
  THEN [channel |-> "stderr", text |-> <<"Error: ">> \o message \o <<"\n">>,
        isError |-> TRUE, exit |-> "1"]
  ELSE [channel |-> "throw", text |-> message, isError |-> TRUE, exit |-> "none"]

cliUsage ==
  [channel |-> "stdout", text |-> <<"Usage: node ar5iv-to-md.mjs <arxiv-id> [part]", "\n">>,
   isError |-> FALSE, exit |-> "0"]

cliInvalidPart(part) ==
  [channel |-> "stderr",
   text |-> <<"Error: Invalid part \"", part,
              "\". Must be one of: all, abstract, body, appendix", "\n">>,
   isError |-> TRUE, exit |-> "1"]

-----------------------------------------------------------------------------
(* State                                                                   *)

VARIABLES
  req,       \* req[r]: the request slot r is serving, NoRequest before it arrives
  pc,        \* pc[r]: "idle", "primary", "secondary", "text" (awaiting the body), "done"
  fetched,   \* fetched[r]: the fetch calls fetchAr5iv has made, in order
  answer,    \* answer[r]: what each mirror answered
  fetchEnd,  \* fetchEnd[r]: how fetchAr5iv ended: pending, returned, or threw a message
  html,      \* html[r]: <<document>> once fetchAr5iv returned it, else <<>>
  md,        \* the accumulator md of the conversion that ran last
  result,    \* result[r]: what the entry point handed back
  rendering  \* the renderer that ran on its own, the element given to it, its text

vars == <<req, pc, fetched, answer, fetchEnd, html, md, result, rendering>>

NoRendering == [op |-> "none", element |-> Txt(<<>>), text |-> <<>>]

Pending == [state |-> "pending", message |-> <<>>]

Init ==
  /\ req = [r \in Requests |-> NoRequest]
  /\ pc = [r \in Requests |-> "idle"]
  /\ fetched = [r \in Requests |-> <<>>]
  /\ answer = [r \in Requests |-> [ar5iv |-> NoResponse, arxiv |-> NoResponse]]
  /\ fetchEnd = [r \in Requests |-> Pending]
  /\ html = [r \in Requests |-> <<>>]
  /\ md = <<>>
  /\ result = [r \in Requests |-> NoResult]
  /\ rendering = NoRendering

\* falling back on every status that is not OK
afterPrimaryAlways(status) == IF ~ok(status) THEN "secondary" ELSE "text"

\* never falling back
afterPrimaryNever(status) == IF ~ok(status) THEN "throw" ELSE "text"

\* falling back on every redirect
afterPrimaryAnyRedirect(status) ==
  IF 300 <= status /\ status <= 399 THEN "secondary"
  ELSE IF ~ok(status) THEN "throw"
  ELSE "text"

\* what fetchAr5iv does with the answer of ar5iv
afterPrimary(status) ==
  IF isUnavailable(status) THEN "secondary"
  ELSE IF ~ok(status) THEN "throw"
  ELSE "text"

\* what fetchAr5iv does with the answer of arxiv.org/html
afterSecondary(status) == IF ~ok(status) THEN "throw" ELSE "text"

\* main: usage is printed when there is no argument or a help flag
cliWantsHelp(q) == ~q.hasId \/ q.arxivId = HelpFlag \/ q.level \in {"--help", "-h"}

\* an error leaves fetchAr5iv and convertAr5ivToMarkdown and reaches the entry point
Throw(r, message) ==
  /\ fetchEnd' = [fetchEnd EXCEPT ![r] = [state |-> "threw", message |-> message]]
  /\ result' = [result EXCEPT ![r] = deliverError(req[r].entry, message)]
  /\ pc' = [pc EXCEPT ![r] = "done"]

\* CLI: no argument, --help or -h
CliHelp(r, q) ==
  /\ pc[r] = "idle"
  /\ q.entry = "cli" /\ cliWantsHelp(q)
  /\ req' = [req EXCEPT ![r] = q]
  /\ result' = [result EXCEPT ![r] = cliUsage]
  /\ pc' = [pc EXCEPT ![r] = "done"]
  /\ UNCHANGED <<fetched, answer, fetchEnd, html, md, rendering>>

\* CLI: a part that is not one of validParts
CliInvalidPart(r, q) ==
  /\ pc[r] = "idle"
  /\ q.entry = "cli" /\ ~cliWantsHelp(q)
  /\ cliPart(q.level) \notin validParts
  /\ req' = [req EXCEPT ![r] = q]
  /\ result' = [result EXCEPT ![r] = cliInvalidPart(cliPart(q.level))]
  /\ pc' = [pc EXCEPT ![r] = "done"]
  /\ UNCHANGED <<fetched, answer, fetchEnd, html, md, rendering>>

\* a request reaches convertAr5ivToMarkdown, whose fetchAr5iv asks ar5iv
Start(r, q) ==
  /\ pc[r] = "idle"
  /\ q.entry = "cli" => ~cliWantsHelp(q) /\ cliPart(q.level) \in validParts
  /\ req' = [req EXCEPT ![r] = q]
  /\ fetched' = [fetched EXCEPT ![r] =
                   <<[mirror |-> "ar5iv", url |-> AR5IV_BASE \o convertId(q)]>>]
  /\ pc' = [pc EXCEPT ![r] = "primary"]
  /\ UNCHANGED <<answer, fetchEnd, html, md, result, rendering>>

\* ar5iv answers with a status
PrimaryAnswers(r, status) ==
  /\ pc[r] = "primary"
  /\ answer' = [answer EXCEPT ![r].ar5iv = Response(status)]
  /\ IF afterPrimary(status) = "secondary"
     THEN /\ fetched' = [fetched EXCEPT ![r] =
                 Append(@, [mirror |-> "arxiv", url |-> ARXIV_HTML_BASE \o convertId(req[r])])]
          /\ pc' = [pc EXCEPT ![r] = "secondary"]
          /\ UNCHANGED <<fetchEnd, result>>
     ELSE IF afterPrimary(status) = "throw"
     THEN /\ Throw(r, failedToFetchMessage(fetched[r][1].url, status))
          /\ UNCHANGED fetched
     ELSE /\ pc' = [pc EXCEPT ![r] = "text"]
          /\ UNCHANGED <<fetched, fetchEnd, result>>
  /\ UNCHANGED <<req, html, md, rendering>>

\* the request to ar5iv fails: fetch rejects
PrimaryRejects(r) ==
  /\ pc[r] = "primary"
  /\ answer' = [answer EXCEPT ![r].ar5iv = Rejected]
  /\ Throw(r, fetchFailedMessage)
  /\ UNCHANGED <<req, fetched, html, md, rendering>>

\* arxiv.org/html answers with a status
SecondaryAnswers(r, status) ==
  /\ pc[r] = "secondary"
  /\ answer' = [answer EXCEPT ![r].arxiv = Response(status)]
  /\ IF afterSecondary(status) = "throw"
     THEN Throw(r, notAvailableMessage(status))
     ELSE /\ pc' = [pc EXCEPT ![r] = "text"]
          /\ UNCHANGED <<fetchEnd, result>>
  /\ UNCHANGED <<req, fetched, html, md, rendering>>

\* the request to arxiv.org/html fails: fetch rejects
SecondaryRejects(r) ==
  /\ pc[r] = "secondary"
  /\ answer' = [answer EXCEPT ![r].arxiv = Rejected]
  /\ Throw(r, fetchFailedMessage)
  /\ UNCHANGED <<req, fetched, html, md, rendering>>

\* the body arrives: fetchAr5iv returns it, JSDOM parses it, the conversion runs
\* to its end without suspending, and the entry point hands the Markdown back
BodyArrives(r, doc) ==
  /\ pc[r] = "text"
  /\ fetchEnd' = [fetchEnd EXCEPT ![r] = [state |-> "returned", message |-> <<>>]]
  /\ html' = [html EXCEPT ![r] = <<doc>>]
  /\ md' = assemble(md, doc, convertPart(req[r]))
  /\ result' = [result EXCEPT ![r] = deliver(req[r].entry, Markdown(md'))]
  /\ pc' = [pc EXCEPT ![r] = "done"]
  /\ UNCHANGED <<req, fetched, answer, rendering>>

\* the body cannot be read: Response.text rejects
BodyRejects(r) ==
  /\ pc[r] = "text"
  /\ Throw(r, bodyFailedMessage)
  /\ UNCHANGED <<req, fetched, answer, html, md, rendering>>

\* one request, from any entry point, for any document
Next ==
  \/ \E q \in AllRequests : CliHelp(1, q)
  \/ \E q \in AllRequests : CliInvalidPart(1, q)
  \/ \E q \in AllRequests : Start(1, q)
  \/ \E status \in PrimaryStatuses : PrimaryAnswers(1, status)
  \/ PrimaryRejects(1)
  \/ \E status \in SecondaryStatuses : SecondaryAnswers(1, status)
  \/ SecondaryRejects(1)
  \/ \E doc \in Documents : BodyArrives(1, doc)
  \/ BodyRejects(1)

Spec == Init /\ [][Next]_vars

\* the requests and documents of the concurrent runs
ConcurrentRequests ==
  [entry : {"tool"}, hasId : {TRUE}, arxivId : {PaperId}, level : {Undefined, "all"}]

ConcurrentDocuments ==
  { d \in Documents :
      /\ extractTitle(d) = <<"T">>
      /\ extractAuthors(d) = <<>>
      /\ querySelector(d, "", "ltx_abstract") = <<>>
      /\ querySelector(d, "", "ltx_bibliography") = <<>>
      /\ Len(querySelectorAll(d, "section", "ltx_section")) = 1
      /\ querySelector(d, "", "ltx_appendix") # <<>> => extractAppendix(d) # <<>> }

\* several extract-paper requests in flight together
NextConcurrent ==
  \E r \in Requests :
    \/ \E q \in ConcurrentRequests : Start(r, q)
    \/ \E status \in PrimaryStatuses : PrimaryAnswers(r, status)
    \/ PrimaryRejects(r)
    \/ \E status \in SecondaryStatuses : SecondaryAnswers(r, status)
    \/ SecondaryRejects(r)
    \/ \E doc \in ConcurrentDocuments : BodyArrives(r, doc)
    \/ BodyRejects(r)

SpecConcurrent == Init /\ [][NextConcurrent]_vars

-----------------------------------------------------------------------------
(* The renderers on their own: tables, citations, sections                 *)

\* rows a table has at most, cells a row has at most
MaxRows == 2

MaxCells == 2

\* reference pointers a citation has at most
MaxPointers == 3

\* containers nested in a top-level section at most
MaxNesting == 3

\* the sequences over S of length at most n
SeqsUpTo(S, n) == UNION { [1..k -> S] : k \in 0..n }

\* cell contents: text with a pipe and a line break, padded bold text
CellContents ==
  { <<Txt(<<"a", "|">>), El("br", {"ltx_break"}, <<>>), Txt(<<"b">>)>>,
    <<Txt(<<" ">>), El("span", {"ltx_font_bold"}, <<Txt(<<"1">>)>>), Txt(<<"\n">>)>> }

\* a row of cells: header cells in the first row, data cells below
Row(i, contents) ==
  El("tr", {"ltx_tr"},
     [j \in 1..Len(contents) |->
        El(IF i = 1 THEN "th" ELSE "td", {"ltx_td"}, contents[j])])

Table(rows) ==
  El("table", {"ltx_tabular"},
     <<El("tbody", {"ltx_tbody"}, [i \in 1..Len(rows) |-> Row(i, rows[i])])>>)

Tables == { Table(rows) : rows \in SeqsUpTo(SeqsUpTo(CellContents, MaxCells), MaxRows) }

\* reference pointers: the two markup shapes, a padded text, an empty text
Pointers ==
  { [El("a", {"ltx_ref"}, <<Txt(<<"1", "2">>)>>) EXCEPT !.href = <<"#", "b">>],
    El("span", {"ltx_ref", "ltx_missing_citation"}, <<Txt(<<"7">>)>>),
    El("a", {"ltx_ref"}, <<Txt(<<" ">>), El("span", {"ltx_text"}, <<Txt(<<"3">>)>>), Txt(<<"\n">>)>>),
    El("a", {"ltx_ref"}, <<>>) }

\* a paragraph with a citation: the pointers separated by text, as LaTeXML writes them
Citation(pointers) ==
  El("p", {"ltx_p"},
     <<Txt(<<"s", " ">>),
       El("cite", {"ltx_cite", "ltx_citemacro_cite"},
          <<Txt(<<"[">>)>>
          \o Concat([i \in 1..Len(pointers) |->
                       IF i = 1 THEN <<pointers[i]>> ELSE <<Txt(<<",", " ">>), pointers[i]>>])
          \o <<Txt(<<"]">>)>>),
       Txt(<<".">>)>>)

Citations == { Citation(pointers) : pointers \in SeqsUpTo(Pointers, MaxPointers) }

ContainerKinds == {"ltx_subsection", "ltx_subsubsection", "ltx_logical-block"}

\* containers nested one in the other, outermost first, each with a heading
\* named after its place and a paragraph
RECURSIVE Nested(_, _)
Nested(kinds, i) ==
  IF i > Len(kinds) THEN <<>>
  ELSE <<El(IF kinds[i] = "ltx_logical-block" THEN "div" ELSE "section", {kinds[i]},
            <<El("h3", {"ltx_title"}, <<Txt(<<"N", ToString(i)>>)>>), Para(<<"x">>)>>
            \o Nested(kinds, i + 1)
            \o <<El("h6", {}, <<Txt(<<"n">>)>>)>>)>>

\* a document with one top-level section of the class, holding the containers
SectionDocument(class, kinds) ==
  Document(<<>>, <<>>, <<>>,
           <<El("section", {class},
                <<El("h2", {"ltx_title", "ltx_title_section"}, <<Txt(<<"S">>)>>), Para(<<"y">>)>>
                \o Nested(kinds, 1)),
             El("section", {class},
                <<El("h2", {"ltx_title", "ltx_title_section"}, <<Txt(<<"Z">>)>>)>>)>>,
           <<>>, <<>>)

SectionDocuments ==
  { SectionDocument(class, kinds) :
      class \in {"ltx_section", "ltx_appendix"}, kinds \in SeqsUpTo(ContainerKinds, MaxNesting) }

\* processTable on a table
RenderTable ==
  /\ rendering.op = "none"
  /\ \E table \in Tables :
       rendering' = [op |-> "processTable", element |-> table, text |-> processTable(table)]
  /\ UNCHANGED <<req, pc, fetched, answer, fetchEnd, html, md, result>>

\* processInlineContent on a paragraph with a citation
RenderInline ==
  /\ rendering.op = "none"
  /\ \E element \in Citations :
       rendering' = [op |-> "processInlineContent", element |-> element,
                     text |-> processInlineContent(element)]
  /\ UNCHANGED <<req, pc, fetched, answer, fetchEnd, html, md, result>>

\* extractBody on a document
RenderBody ==
  /\ rendering.op = "none"
  /\ \E doc \in SectionDocuments :
       rendering' = [op |-> "extractBody", element |-> doc, text |-> extractBody(doc)]
  /\ UNCHANGED <<req, pc, fetched, answer, fetchEnd, html, md, result>>

\* extractAppendix on a document
RenderAppendix ==
  /\ rendering.op = "none"
  /\ \E doc \in SectionDocuments :
       rendering' = [op |-> "extractAppendix", element |-> doc, text |-> extractAppendix(doc)]
  /\ UNCHANGED <<req, pc, fetched, answer, fetchEnd, html, md, result>>

NextRender ==
  \/ RenderTable
  \/ RenderInline
  \/ RenderBody
  \/ RenderAppendix

SpecRender == Init /\ [][NextRender]_vars


-----------------------------------------------------------------------------
(* Vocabulary of the properties                                            *)

Done(r) == pc[r] = "done"

Returned(r) == fetchEnd[r].state = "returned"

Threw(r) == fetchEnd[r].state = "threw"

\* how many times fetchAr5iv has asked a mirror
Asked(r, mirror) == Len(SelectSeq(fetched[r], LAMBDA f : f.mirror = mirror))

\* the mirror answered with a status that is not OK
Refused(a) == a.got = "response" /\ ~(200 <= a.status /\ a.status <= 299)

NotAvailablePhrase == "Paper HTML not available: ar5iv redirected, arxiv.org/html returned "

\* the part the conversion of request r runs with
PartOf(r) == defaultPart(convertPart(req[r]))

\* the Markdown a fresh conversion of doc at part gives
Fresh(doc, part) == Markdown(assemble(<<>>, doc, part))

Count(seq, x) == Cardinality({i \in 1..Len(seq) : seq[i] = x})

\* the first line that is not empty, <<>> when there is none
FirstNonEmptyLine(text) ==
  LET lines == Lines(text)
      idx   == {i \in 1..Len(lines) : lines[i] # <<>>}
  IN  IF idx = {} THEN <<>> ELSE lines[CHOOSE i \in idx : \A j \in idx : i <= j]

Regions(chunks) == [i \in 1..Len(chunks) |-> chunks[i].region]

HasRegion(chunks, region) == \E i \in 1..Len(chunks) : chunks[i].region = region

\* a request whose Markdown came back as it is (the CLI prints it with a newline)
Converted(r) == Done(r) /\ Returned(r) /\ req[r].entry \in {"tool", "api"}

-----------------------------------------------------------------------------
(* C1 *)

\* C1 as stated: once ar5iv has answered 307, arxiv.org/html has been asked
\* exactly once, and fetchAr5iv throws only after that request came back with
\* a status that is not OK.
C1_AsStated ==
  \A r \in Requests :
    answer[r].ar5iv = Response(307) =>
      /\ Asked(r, "arxiv") = 1
      /\ Threw(r) => Refused(answer[r].arxiv)

\* C1 (amended): once ar5iv has answered 307, arxiv.org/html has been asked
\* exactly once (never zero times, never more), ar5iv itself once, and
\* fetchAr5iv throws only after that single request has failed: it came back
\* with a status that is not OK, or it was rejected, or the body of its OK
\* answer could not be read.
C1_FallbackOnce ==
  \A r \in Requests :
    answer[r].ar5iv = Response(307) =>
      /\ Asked(r, "arxiv") = 1
      /\ Asked(r, "ar5iv") = 1
      /\ fetched[r][2].mirror = "arxiv"
      /\ Threw(r) =>
           \/ Refused(answer[r].arxiv)
           \/ answer[r].arxiv = Rejected
           \/ /\ answer[r].arxiv.got = "response"
              /\ fetchEnd[r].message = bodyFailedMessage
      /\ Done(r) => answer[r].arxiv # NoResponse

\* ar5iv answered 307, arxiv.org/html was asked once and refused, the call failed
C1_Witness ==
  \E r \in Requests :
    /\ Done(r) /\ Threw(r)
    /\ answer[r].ar5iv = Response(307)
    /\ answer[r].arxiv = Response(404)
    /\ Asked(r, "arxiv") = 1

-----------------------------------------------------------------------------
(* C2 *)

\* C2 as stated: every failure of fetchAr5iv is a "Paper HTML not available"
\* failure, reached after both mirrors were asked.
C2_AsStated ==
  \A r \in Requests :
    Threw(r) =>
      /\ fetchEnd[r].message[1] = NotAvailablePhrase
      /\ Asked(r, "ar5iv") = 1 /\ Asked(r, "arxiv") = 1

\* C2 (amended): fetchAr5iv fails with "Paper HTML not available" exactly when
\* ar5iv answered 307 and arxiv.org/html then answered with a status that is
\* not OK (both mirrors asked once); a status of ar5iv that is neither OK nor
\* 307 fails with "Failed to fetch <url>: <status>" without arxiv.org/html
\* being asked; a rejected request or an unreadable body fails with the error
\* of the platform.
C2_NotAvailable ==
  \A r \in Requests :
    /\ (Done(r) /\ answer[r].ar5iv = Response(307) /\ Refused(answer[r].arxiv)) =>
         /\ Threw(r)
         /\ fetchEnd[r].message = <<NotAvailablePhrase, ToString(answer[r].arxiv.status)>>
    /\ (Threw(r) /\ fetchEnd[r].message[1] = NotAvailablePhrase) =>
         /\ answer[r].ar5iv = Response(307)
         /\ Refused(answer[r].arxiv)
         /\ [i \in 1..Len(fetched[r]) |-> fetched[r][i].mirror] = <<"ar5iv", "arxiv">>
    /\ (Threw(r) /\ Refused(answer[r].ar5iv) /\ answer[r].ar5iv.status # 307) =>
         /\ fetchEnd[r].message[1] = "Failed to fetch "
         /\ fetchEnd[r].message[Len(fetchEnd[r].message)] = ToString(answer[r].ar5iv.status)
         /\ Asked(r, "arxiv") = 0
    /\ (Threw(r) /\ Rejected \in {answer[r].ar5iv, answer[r].arxiv}) =>
         fetchEnd[r].message = fetchFailedMessage

\* both mirrors refused and the call failed with "Paper HTML not available"
C2_Witness ==
  \E r \in Requests :
    /\ Threw(r)
    /\ answer[r].ar5iv = Response(307)
    /\ answer[r].arxiv = Response(503)
    /\ fetchEnd[r].message = <<NotAvailablePhrase, "503">>

-----------------------------------------------------------------------------
(* C3 *)

\* C3: an extract-paper request ends either with the Markdown and no error
\* flag or with one error message and the flag, never both: when the fetch
\* threw, no document was parsed, no conversion ran and the text is the error
\* message alone; when it returned, the text is exactly the Markdown of the
\* fetched document at the requested level.
C3_MarkdownOrError ==
  \A r \in Requests :
    (Done(r) /\ req[r].entry = "tool") =>
      /\ result[r].channel = "content"
      /\ result[r].isError <=> Threw(r)
      /\ ~result[r].isError <=> Returned(r)
      /\ Threw(r) =>
           /\ result[r].text = <<"Error fetching paper: ">> \o fetchEnd[r].message
           /\ html[r] = <<>>
           /\ md = <<>>
      /\ Returned(r) =>
           /\ html[r] # <<>>
           /\ result[r].text = Fresh(html[r][1], schemaLevel(req[r].level))

\* an extract-paper request that came back with a Markdown document
C3_Witness ==
  \E r \in Requests :
    /\ Done(r) /\ req[r].entry = "tool" /\ Returned(r)
    /\ ~result[r].isError
    /\ Len(result[r].text) > 20

-----------------------------------------------------------------------------
(* C4 *)

\* whether a text has a line break in it
HasLineBreak(text) == \E i \in 1..Len(text) : text[i] = "\n"

\* C4 as stated: at level all, a title that is not empty makes '# <title>' the
\* first non-empty line of the output, and that line occurs exactly once.
C4_AsStated ==
  \A r \in Requests :
    (Converted(r) /\ PartOf(r) = "all" /\ extractTitle(html[r][1]) # <<>>) =>
      LET heading == <<"#", " ">> \o extractTitle(html[r][1])
      IN  /\ FirstNonEmptyLine(result[r].text) = heading
          /\ Count(Lines(result[r].text), heading) = 1

\* C4 (amended): at level all, a title that is not empty is emitted by one
\* statement, first: the output begins with '# <title>' and a blank line.  When
\* the title has no line break in it, that heading is the first line (so the
\* first non-empty line), and it occurs once plus once for every identical line
\* the other regions contribute: exactly once unless another region holds such
\* a line (a title 'Appendix' with an appendix gives '# Appendix' twice).
C4_TitleFirst ==
  \A r \in Requests :
    (Converted(r) /\ PartOf(r) = "all" /\ extractTitle(html[r][1]) # <<>>) =>
      LET title   == extractTitle(html[r][1])
          heading == <<"#", " ">> \o title
          text    == result[r].text
          rest    == SubSeq(text, Len(heading) + 3, Len(text))
      IN  /\ StartsWith(text, heading \o <<"\n", "\n">>)
          /\ Regions(md)[1] = "title"
          /\ Count(Regions(md), "title") = 1
          /\ ~HasLineBreak(title) =>
               /\ Lines(text)[1] = heading
               /\ FirstNonEmptyLine(text) = heading
               /\ Count(Lines(text), heading) = 1 + Count(Lines(rest), heading)
          /\ (~HasLineBreak(title) /\ Count(Lines(rest), heading) = 0) =>
               Count(Lines(text), heading) = 1

\* a full conversion of a titled document with every region present
C4_Witness ==
  \E r \in Requests :
    /\ Converted(r) /\ PartOf(r) = "all"
    /\ extractTitle(html[r][1]) = <<"T">>
    /\ extractAuthors(html[r][1]) # <<>>
    /\ extractAbstract(html[r][1]) # <<>>
    /\ extractBody(html[r][1]) # <<>>
    /\ extractReferences(html[r][1]) # <<>>
    /\ extractAppendix(html[r][1]) # <<>>

-----------------------------------------------------------------------------
(* C5 *)

\* what the references and the appendix add at level all
Suffix(doc) ==
  extractReferences(doc)
    \o (IF extractAppendix(doc) # <<>>
        THEN <<"-","-","-","\n","\n","#"," ","A","p","p","e","n","d","i","x","\n","\n">>
               \o extractAppendix(doc)
        ELSE <<>>)

\* C5: the output at level body is a prefix of the output at level all, and
\* what follows it at level all is the references followed by the appendix
\* (with its rule and heading), nothing else.
C5_BodyPrefixOfAll ==
  \A r \in Requests :
    /\ (Converted(r) /\ PartOf(r) = "all") =>
         /\ StartsWith(result[r].text, Fresh(html[r][1], "body"))
         /\ result[r].text = Fresh(html[r][1], "body") \o Suffix(html[r][1])
    /\ (Converted(r) /\ PartOf(r) = "body") =>
         /\ StartsWith(Fresh(html[r][1], "all"), result[r].text)
         /\ Fresh(html[r][1], "all") = result[r].text \o Suffix(html[r][1])

\* a conversion at level body of a document that has an abstract, references
\* and an appendix
C5_Witness ==
  \E r \in Requests :
    /\ Converted(r) /\ PartOf(r) = "body"
    /\ extractAbstract(html[r][1]) # <<>>
    /\ extractReferences(html[r][1]) # <<>>
    /\ extractAppendix(html[r][1]) # <<>>
    /\ Len(result[r].text) < Len(Fresh(html[r][1], "all"))

-----------------------------------------------------------------------------
(* C6 *)

\* C6 as stated: the authors line is emitted if and only if the extracted
\* authors are not empty and the level is abstract, body or all, never at level
\* appendix, and when emitted it comes directly after the title line and
\* before every other region.
C6_AsStated ==
  \A r \in Requests :
    (Converted(r) /\ PartOf(r) \in Levels) =>
      /\ HasRegion(md, "authors") <=>
           (extractAuthors(html[r][1]) # <<>> /\ PartOf(r) \in {"abstract", "body", "all"})
      /\ HasRegion(md, "authors") =>
           /\ md[1].region = "title"
           /\ md[2].region = "authors"
           /\ \A i \in 3..Len(md) : md[i].region \notin {"title", "authors"}

\* C6 (amended): the authors line is emitted if and only if the extracted
\* authors are not empty and the level is abstract, body or all; at level
\* appendix it is never emitted; when emitted it is '**Authors:** <authors>'
\* and a blank line, it comes directly after the title line when the document
\* has a title and is the first line when it has none, and it comes before
\* every other region.
C6_AuthorsLine ==
  \A r \in Requests :
    (Converted(r) /\ PartOf(r) \in Levels) =>
      LET doc     == html[r][1]
          authors == extractAuthors(doc)
          title   == extractTitle(doc)
          head    == IF title # <<>> THEN <<"#", " ">> \o title \o <<"\n", "\n">> ELSE <<>>
          line    == <<"*","*","A","u","t","h","o","r","s",":","*","*"," ">> \o authors
                       \o <<"\n", "\n">>
          at      == IF title # <<>> THEN 2 ELSE 1
      IN  /\ HasRegion(md, "authors") <=>
               (authors # <<>> /\ PartOf(r) \in {"abstract", "body", "all"})
          /\ PartOf(r) = "appendix" => ~HasRegion(md, "authors")
          /\ HasRegion(md, "authors") =>
               /\ Count(Regions(md), "authors") = 1
               /\ md[at].region = "authors" /\ md[at].text = line
               /\ \A i \in 1..(at - 1) : md[i].region = "title"
               /\ \A i \in (at + 1)..Len(md) : md[i].region \notin {"title", "authors"}
               /\ StartsWith(result[r].text, head \o line)
          /\ ~HasRegion(md, "authors") =>
               result[r].text = head \o Markdown(switchPart(doc, PartOf(r)))

\* a conversion below level appendix of a document with a title and authors
C6_Witness ==
  \E r \in Requests :
    /\ Converted(r) /\ PartOf(r) = "abstract"
    /\ extractTitle(html[r][1]) # <<>>
    /\ extractAuthors(html[r][1]) # <<>>
    /\ HasRegion(md, "authors")

-----------------------------------------------------------------------------
(* C7 *)

\* the regions after the title and the authors, those that append something
BodyRegions(chunks) ==
  Regions(SelectSeq(chunks, LAMBDA c : c.region \notin {"title", "authors"} /\ c.text # <<>>))

\* seq is <<abstract, body, references, appendix>> with some of them left out
InRegionOrder(seq) ==
  LET rank(x) == CASE x = "abstract" -> 1 [] x = "body" -> 2
                   [] x = "references" -> 3 [] x = "appendix" -> 4 [] OTHER -> 0
  IN  /\ \A i \in 1..Len(seq) : rank(seq[i]) > 0
      /\ \A i \in 1..(Len(seq) - 1) : rank(seq[i]) < rank(seq[i + 1])

RuleAndHeading == <<"-","-","-","\n","\n","#"," ","A","p","p","e","n","d","i","x","\n","\n">>

\* C7: at level all the regions come in the order abstract, body, references,
\* appendix, the appendix after a '---' rule and a '# Appendix' heading, which
\* are there only when the appendix content is not empty; at the levels
\* abstract, body and appendix no references, no rule and no heading are
\* emitted, and at level appendix the appendix content is emitted as it is.
C7_RegionOrder ==
  \A r \in Requests :
    (Converted(r) /\ PartOf(r) \in Levels) =>
      LET doc      == html[r][1]
          appendix == extractAppendix(doc)
          head     == Markdown(SelectSeq(md, LAMBDA c : c.region \in {"title", "authors"}))
      IN  /\ InRegionOrder(BodyRegions(md))
          /\ PartOf(r) = "all" =>
               /\ HasRegion(md, "appendix") <=> appendix # <<>>
               /\ \A i \in 1..Len(md) :
                    md[i].region = "appendix" => md[i].text = RuleAndHeading \o appendix
               /\ \A i \in 1..Len(md) :
                    md[i].region = "references" => md[i].text = extractReferences(doc)
               /\ \A i \in 1..Len(md) :
                    md[i].region = "body" => md[i].text = extractBody(doc)
               /\ result[r].text =
                    head
                    \o (IF extractAbstract(doc) # <<>>
                        THEN <<"#","#"," ","A","b","s","t","r","a","c","t","\n","\n">>
                               \o extractAbstract(doc) \o <<"\n", "\n">>
                        ELSE <<>>)
                    \o extractBody(doc)
                    \o extractReferences(doc)
                    \o (IF appendix # <<>> THEN RuleAndHeading \o appendix ELSE <<>>)
          /\ PartOf(r) # "all" =>
               /\ ~HasRegion(md, "references")
               /\ \A i \in 1..Len(md) : ~StartsWith(md[i].text, RuleAndHeading)
          /\ PartOf(r) \in {"abstract", "body"} => ~HasRegion(md, "appendix")
          /\ PartOf(r) = "appendix" =>
               /\ BodyRegions(md) = (IF appendix # <<>> THEN <<"appendix">> ELSE <<>>)
               /\ result[r].text = head \o appendix

\* a full conversion where abstract, body, references and appendix all appear
C7_Witness ==
  \E r \in Requests :
    /\ Converted(r) /\ PartOf(r) = "all"
    /\ BodyRegions(md) = <<"abstract", "body", "references", "appendix">>

-----------------------------------------------------------------------------
(* C8 *)

\* C8 as stated: a fetched document without an abstract gives, at level body,
\* a Markdown that is not empty, made of title, authors and body only, and no
\* error.
C8_AsStated ==
  \A r \in Requests :
    (Converted(r) /\ PartOf(r) = "body"
       /\ querySelector(html[r][1], "", "ltx_abstract") = <<>>) =>
      /\ ~result[r].isError
      /\ result[r].text # <<>>

\* C8 (amended): a fetched document without an abstract (no abstract region,
\* or one without a paragraph) gives, at level body, no error and a Markdown
\* made of the title line, the authors line and the body only; it is not empty
\* whenever the document has a title, authors or body content, and it is the
\* empty string when it has none of them.
C8_NoAbstract ==
  \A r \in Requests :
    (Converted(r) /\ PartOf(r) = "body" /\ extractAbstract(html[r][1]) = <<>>) =>
      LET doc     == html[r][1]
          title   == extractTitle(doc)
          authors == extractAuthors(doc)
      IN  /\ ~result[r].isError
          /\ result[r].text =
               (IF title # <<>> THEN <<"#", " ">> \o title \o <<"\n", "\n">> ELSE <<>>)
               \o (IF authors # <<>>
                   THEN <<"*","*","A","u","t","h","o","r","s",":","*","*"," ">> \o authors
                          \o <<"\n", "\n">>
                   ELSE <<>>)
               \o extractBody(doc)
          /\ ~HasRegion(md, "abstract")
          /\ result[r].text = <<>> <=>
               (title = <<>> /\ authors = <<>> /\ extractBody(doc) = <<>>)

\* a conversion at level body of a document with a title and a body and no
\* abstract region
C8_Witness ==
  \E r \in Requests :
    /\ Converted(r) /\ PartOf(r) = "body"
    /\ querySelector(html[r][1], "", "ltx_abstract") = <<>>
    /\ extractTitle(html[r][1]) # <<>>
    /\ extractBody(html[r][1]) # <<>>
    /\ result[r].text # <<>>

-----------------------------------------------------------------------------
(* C9 *)

\* what entry hands back for the Markdown of doc at part
Handed(entry, doc, part) ==
  IF entry = "cli" THEN Fresh(doc, part) \o <<"\n">> ELSE Fresh(doc, part)

\* C9 as stated: on every entry point, a request without a level gives what the
\* same request with level body gives.
C9_AsStated ==
  \A r \in Requests :
    (Done(r) /\ Returned(r) /\ req[r].level = Undefined) =>
      result[r].text = Handed(req[r].entry, html[r][1], "body")

\* C9 (amended): on the extract-paper tool a request without a level gives
\* what the same request with level body gives; convertAr5ivToMarkdown called
\* without a part and the CLI run without a part give what level all gives.
C9_DefaultLevel ==
  \A r \in Requests :
    (Done(r) /\ Returned(r) /\ req[r].level = Undefined) =>
      /\ req[r].entry = "tool" =>
           result[r].text = Handed("tool", html[r][1], "body")
      /\ req[r].entry = "api" =>
           result[r].text = Handed("api", html[r][1], "all")
      /\ req[r].entry = "cli" =>
           result[r].text = Handed("cli", html[r][1], "all")

\* an extract-paper request without a level, for a document whose output at
\* level body differs from its output at level all
C9_Witness ==
  \E r \in Requests :
    /\ Done(r) /\ Returned(r)
    /\ req[r].entry = "tool" /\ req[r].level = Undefined
    /\ Fresh(html[r][1], "body") # Fresh(html[r][1], "all")
    /\ result[r].text = Fresh(html[r][1], "body")

-----------------------------------------------------------------------------
(* C10 *)

\* C10: whatever ran before or in between, the Markdown a request gets is the
\* Markdown of its own document at its own level: two requests that fetched
\* the same document at the same level get the same text, and each text is
\* what a conversion starting from nothing gives.
C10_NoCarriedState ==
  \A p \in Requests :
    (Done(p) /\ Returned(p)) =>
      /\ result[p].text = Fresh(html[p][1], PartOf(p))
      /\ \A q \in Requests :
           (Done(q) /\ Returned(q) /\ html[q] = html[p] /\ PartOf(q) = PartOf(p)) =>
             result[q].text = result[p].text

\* two requests that fetched the same document at the same level, by different
\* mirrors, both served
C10_Witness ==
  \E p, q \in Requests :
    /\ p # q
    /\ Done(p) /\ Returned(p) /\ Done(q) /\ Returned(q)
    /\ html[p] = html[q] /\ PartOf(p) = PartOf(q)
    /\ answer[p].ar5iv = Response(200) /\ answer[q].ar5iv = Response(307)
    /\ result[p].text # <<>>

-----------------------------------------------------------------------------
(* C11 *)

\* the cells of a pipe-delimited line: what stands between '| ' and ' |',
\* cut at every ' | '; <<>> when the line is not pipe-delimited
RECURSIVE CutCells(_, _)
CutCells(s, cur) ==
  IF s = <<>> THEN <<cur>>
  ELSE IF Len(s) >= 3 /\ SubSeq(s, 1, 3) = <<" ", "|", " ">>
       THEN <<cur>> \o CutCells(SubSeq(s, 4, Len(s)), <<>>)
       ELSE CutCells(Tail(s), Append(cur, Head(s)))

PipeCells(line) ==
  IF Len(line) >= 4 /\ SubSeq(line, 1, 2) = <<"|", " ">>
     /\ SubSeq(line, Len(line) - 1, Len(line)) = <<" ", "|">>
  THEN IF Len(line) = 4 THEN <<>> ELSE CutCells(SubSeq(line, 3, Len(line) - 2), <<>>)
  ELSE <<>>

IsPipeLine(line) ==
  /\ Len(line) >= 4
  /\ SubSeq(line, 1, 2) = <<"|", " ">>
  /\ SubSeq(line, Len(line) - 1, Len(line)) = <<" ", "|">>

\* a separator row: a pipe-delimited line of at least one cell, every cell '---'
IsSeparator(line) ==
  /\ IsPipeLine(line)
  /\ PipeCells(line) # <<>>
  /\ \A j \in 1..Len(PipeCells(line)) : PipeCells(line)[j] = <<"-", "-", "-">>

\* the cells of a row element of the table as the table shows them: rendered
\* inline, pipes escaped, line breaks turned into spaces, trimmed
ShownCells(row) ==
  LET cells == SelectSeq(Descendants(row), LAMBDA d : d.node.tag \in {"td", "th"})
  IN  [j \in 1..Len(cells) |->
         Trim(NewlinesToSpaces(EscapePipes(processInlineContent(cells[j].node))))]

\* C11: processTable gives, for a table with at least one row, one
\* pipe-delimited line per row, top to bottom, each showing the cells of its
\* row, and exactly one separator row of '---' cells: it is the line right
\* after the first row and has as many cells as the first row, and no line
\* after a later row is a separator; a table with no row gives the empty
\* string.
C11_PipeTable ==
  rendering.op = "processTable" =>
    LET rows   == querySelectorAll(rendering.element, "tr", "")
        n      == Len(rows)
        lines  == Lines(rendering.text)
        \* the lines between the newline in front and the blank line at the end
        inner  == SubSeq(lines, 2, Len(lines) - 2)
        rowAt(i) == IF i = 1 THEN inner[1] ELSE inner[i + 1]
    IN  IF n = 0 THEN rendering.text = <<>>
        ELSE /\ Len(lines) = n + 4
             /\ lines[1] = <<>> /\ lines[Len(lines) - 1] = <<>> /\ lines[Len(lines)] = <<>>
             /\ \A i \in 1..n :
                  /\ IsPipeLine(rowAt(i))
                  /\ PipeCells(rowAt(i)) = ShownCells(rows[i])
             /\ IsPipeLine(inner[2])
             /\ Len(PipeCells(inner[2])) = Len(ShownCells(rows[1]))
             /\ \A j \in 1..Len(PipeCells(inner[2])) : PipeCells(inner[2])[j] = <<"-", "-", "-">>
             /\ \A i \in 3..Len(inner) : ~IsSeparator(inner[i])

\* a table of two rows of two cells, one of them with an escaped pipe, rendered
C11_Witness ==
  /\ rendering.op = "processTable"
  /\ LET rows == querySelectorAll(rendering.element, "tr", "")
     IN  /\ Len(rows) = 2
         /\ Len(ShownCells(rows[1])) = 2
         /\ Len(ShownCells(rows[2])) = 2
         /\ ShownCells(rows[2])[1] = <<"a", "\\", "|", " ", "b">>
  /\ Len(Lines(rendering.text)) = 6

-----------------------------------------------------------------------------
(* C12 *)

\* the citation span of the rendered element
CiteOf(element) == querySelector(element, "", "ltx_cite")[1]

\* the reference pointers nested under a citation span, in document order
PointersOf(cite) ==
  LET below == Descendants(cite)
      hits  == SelectSeq(below, LAMBDA d : d.node.tag \in {"a", "span"} /\ "ltx_ref" \in d.node.cls)
  IN  [i \in 1..Len(hits) |-> hits[i].node]

\* the text a reader sees of a pointer: its text without the white space around it
VisibleText(pointer) == Trim(textContent(pointer))

\* the rendered citation: the rendered element without the text around the span
CitationText ==
  SubSeq(rendering.text, 3, Len(rendering.text) - 1)

\* C12 as stated: the citation renders as '[' + the visible texts of all the
\* reference pointers under the span, in document order, joined by ', ' + ']'.
C12_AsStated ==
  rendering.op = "processInlineContent" =>
    LET pointers == PointersOf(CiteOf(rendering.element))
        texts    == [i \in 1..Len(pointers) |-> VisibleText(pointers[i])]
    IN  /\ rendering.text = <<"s", " ">> \o CitationText \o <<".">>
        /\ CitationText = <<"[">> \o Join(texts, <<",", " ">>) \o <<"]">>

\* C12 (amended): the citation renders as '[' + the visible texts of the
\* reference pointers under the span that have a visible text, in document
\* order, joined by ', ' + ']'; a pointer whose text is empty or white space
\* only is left out, separator included. Pointers showing 12 and 7 give
\* '[12, 7]'; a citation with no pointer, or with none that has a visible
\* text, gives '[]'.
C12_Citation ==
  rendering.op = "processInlineContent" =>
    LET pointers == PointersOf(CiteOf(rendering.element))
        shown    == SelectSeq(pointers, LAMBDA q : VisibleText(q) # <<>>)
        texts    == [i \in 1..Len(shown) |-> VisibleText(shown[i])]
    IN  /\ rendering.text = <<"s", " ">> \o CitationText \o <<".">>
        /\ CitationText = <<"[">> \o Join(texts, <<",", " ">>) \o <<"]">>
        /\ texts = <<<<"1", "2">>, <<"7">>>> =>
             CitationText = <<"[", "1", "2", ",", " ", "7", "]">>
        /\ texts = <<>> => CitationText = <<"[", "]">>

\* a citation of three pointers, the one in the middle without a visible text,
\* rendered as '[12, 7]'
C12_Witness ==
  /\ rendering.op = "processInlineContent"
  /\ LET pointers == PointersOf(CiteOf(rendering.element))
     IN  /\ Len(pointers) = 3
         /\ VisibleText(pointers[1]) = <<"1", "2">>
         /\ VisibleText(pointers[2]) = <<>>
         /\ VisibleText(pointers[3]) = <<"7">>
  /\ CitationText = <<"[", "1", "2", ",", " ", "7", "]">>

-----------------------------------------------------------------------------
(* C13 *)

HeadingTags == {"h1", "h2", "h3", "h4", "h5", "h6"}

\* the depth the content of a container is rendered at when the container is
\* met at depth: a subsection one deeper, a subsection-of-subsection two
\* deeper, a logical-group wrapper at the same depth; 0 for what is no container
DepthBelow(child, depth) ==
  IF "ltx_para" \in child.cls THEN 0
  ELSE IF "ltx_subsection" \in child.cls THEN depth + 1
  ELSE IF "ltx_subsubsection" \in child.cls THEN depth + 2
  ELSE IF child.tag = "div" /\ "ltx_logical-block" \in child.cls THEN depth
  ELSE 0

\* the headings of a section met at depth, in document order, each with the
\* depth these rules reach for it
RECURSIVE HeadingsAt(_, _)
HeadingsAt(section, depth) ==
  LET kids == Children(section)
  IN  Concat([i \in 1..Len(kids) |->
        IF kids[i].tag \in HeadingTags
        THEN IF "ltx_title" \in kids[i].cls
             THEN <<[depth |-> depth, title |-> Trim(textContent(kids[i]))]>>
             ELSE <<>>
        ELSE IF DepthBelow(kids[i], depth) > 0
             THEN HeadingsAt(kids[i], DepthBelow(kids[i], depth))
             ELSE <<>>])

\* the number of '#' a line starts with
RECURSIVE LeadingHashes(_)
LeadingHashes(line) ==
  IF line # <<>> /\ Head(line) = "#" THEN 1 + LeadingHashes(Tail(line)) ELSE 0

\* the headings of a Markdown text, in order: the '#' of each and its title
HeadingsOf(text) ==
  LET lines == SelectSeq(Lines(text), LAMBDA l : LeadingHashes(l) > 0)
  IN  [i \in 1..Len(lines) |->
         [depth |-> LeadingHashes(lines[i]),
          title |-> SubSeq(lines[i], LeadingHashes(lines[i]) + 2, Len(lines[i]))]]

\* the top-level sections extractBody or extractAppendix renders
TopSections(op, doc) ==
  LET article == SelectSeq(Descendants(doc),
                   LAMBDA d : d.node.tag = "article" /\ "ltx_document" \in d.node.cls)
      class   == IF op = "extractBody" THEN "ltx_section" ELSE "ltx_appendix"
  IN  IF article = <<>> THEN <<>>
      ELSE SelectSeq(Children(article[1].node),
                     LAMBDA c : c.tag = "section" /\ class \in c.cls)

\* C13: every top-level body or appendix section is rendered starting at
\* depth 2, a nested subsection one level deeper than its container, a
\* subsection-of-subsection two levels deeper than the depth at which it is
\* met, a logical-group wrapper at the depth of its container; the headings of
\* the rendered text are those of the sections, in order, each with exactly as
\* many '#' as the depth these rules reach, and never fewer than 2.
C13_HeadingDepth ==
  rendering.op \in {"extractBody", "extractAppendix"} =>
    LET tops     == TopSections(rendering.op, rendering.element)
        expected == Concat([i \in 1..Len(tops) |-> HeadingsAt(tops[i], 2)])
        found    == HeadingsOf(rendering.text)
    IN  /\ found = expected
        /\ \A i \in 1..Len(found) : found[i].depth >= 2

\* a body section holding a subsection, in it a subsection-of-subsection, in
\* it a logical-group wrapper, rendered with headings of 2, 3, 5 and 5 '#'
C13_Witness ==
  /\ rendering.op = "extractBody"
  /\ LET found == HeadingsOf(rendering.text)
     IN  /\ Len(found) = 5
         /\ [i \in 1..5 |-> found[i].depth] = <<2, 3, 5, 5, 2>>
         /\ found[3].title = <<"N", "2">>
  /\ LET below == Descendants(TopSections("extractBody", rendering.element)[1])
         boxes == SelectSeq(below, LAMBDA d : DepthBelow(d.node, 2) > 0)
     IN  [i \in 1..Len(boxes) |-> DepthBelow(boxes[i].node, 2) - 2] = <<1, 2, 0>>

-----------------------------------------------------------------------------
(* C14 *)

\* the region has no element in the document
Absent(doc, region) ==
  CASE region = "title"      -> querySelector(doc, "h1", "ltx_title_document") = <<>>
    [] region = "authors"    -> querySelector(doc, "", "ltx_authors") = <<>>
    [] region = "abstract"   -> querySelector(doc, "", "ltx_abstract") = <<>>
    [] region = "body"       -> querySelectorAll(doc, "section", "ltx_section") = <<>>
    [] region = "appendix"   -> querySelectorAll(doc, "section", "ltx_appendix") = <<>>
    [] region = "references" -> querySelector(doc, "section", "ltx_bibliography") = <<>>

AllRegions == {"title", "authors", "abstract", "body", "appendix", "references"}

\* what the statements of a region appended to the output
Contribution(chunks, region) ==
  Concat([i \in 1..Len(chunks) |->
            IF chunks[i].region = region THEN chunks[i].text ELSE <<>>])

\* C14 as stated: at every detail level a region that is absent from the
\* fetched document contributes nothing to the assembled output (no heading,
\* label or separator of that region), and the conversion does not fail.
C14_AsStated ==
  \A r \in Requests :
    Converted(r) =>
      /\ ~result[r].isError
      /\ result[r].text = Markdown(md)
      /\ \A region \in AllRegions :
           Absent(html[r][1], region) => Contribution(md, region) = <<>>

-----------------------------------------------------------------------------
(* C15 *)

\* the mirrors fetchAr5iv has asked so far, in the order of the requests
MirrorsAsked(r) == [i \in 1..Len(fetched[r]) |-> fetched[r][i].mirror]

\* ar5iv answered with an OK status
PrimaryOk(r) == answer[r].ar5iv.got = "response" /\ ok(answer[r].ar5iv.status)

\* C15 as stated: arxiv.org/html is asked only after ar5iv has answered 307;
\* when ar5iv answered OK the call returns the text of ar5iv and arxiv.org/html
\* is never asked; when ar5iv answered with any other status that is not OK
\* the call has failed at once and arxiv.org/html is not asked; ar5iv is asked
\* exactly once per call.
C15_AsStated ==
  \A r \in Requests :
    /\ Asked(r, "arxiv") > 0 => answer[r].ar5iv = Response(307)
    /\ PrimaryOk(r) =>
         /\ MirrorsAsked(r) = <<"ar5iv">>
         /\ Done(r) => Returned(r)
    /\ (Refused(answer[r].ar5iv) /\ answer[r].ar5iv.status # 307) =>
         /\ Done(r) /\ Threw(r)
         /\ MirrorsAsked(r) = <<"ar5iv">>
    /\ fetched[r] # <<>> => Asked(r, "ar5iv") = 1

\* C15 (amended): arxiv.org/html is asked only after ar5iv has answered 307,
\* and then as the second and last request; when ar5iv answered OK,
\* arxiv.org/html is never asked and the call returns the text of that one
\* answer, or fails with the read error when its body cannot be read; when
\* ar5iv answered with any other status that is not OK the call has failed at
\* once with "Failed to fetch" and arxiv.org/html is not asked; when the
\* request to ar5iv was rejected the call has failed with that error and
\* arxiv.org/html is not asked; ar5iv is asked exactly once per call, first.
C15_FetchOrder ==
  \A r \in Requests :
    /\ Asked(r, "arxiv") > 0 =>
         /\ answer[r].ar5iv = Response(307)
         /\ MirrorsAsked(r) = <<"ar5iv", "arxiv">>
    /\ PrimaryOk(r) =>
         /\ MirrorsAsked(r) = <<"ar5iv">>
         /\ answer[r].arxiv = NoResponse
         /\ Done(r) =>
              \/ Returned(r) /\ html[r] # <<>>
              \/ Threw(r) /\ fetchEnd[r].message = bodyFailedMessage
    /\ (Refused(answer[r].ar5iv) /\ answer[r].ar5iv.status # 307) =>
         /\ Done(r) /\ Threw(r)
         /\ fetchEnd[r].message[1] = "Failed to fetch "
         /\ MirrorsAsked(r) = <<"ar5iv">>
         /\ answer[r].arxiv = NoResponse
    /\ answer[r].ar5iv = Rejected =>
         /\ Done(r) /\ Threw(r)
         /\ MirrorsAsked(r) = <<"ar5iv">>
    /\ fetched[r] # <<>> =>
         /\ Asked(r, "ar5iv") = 1
         /\ fetched[r][1].mirror = "ar5iv"
    /\ (Returned(r) \/ Threw(r)) => fetched[r] # <<>>

\* ar5iv answered 301: the call failed at once, arxiv.org/html was not asked
C15_Witness ==
  \E r \in Requests :
    /\ answer[r].ar5iv = Response(301)
    /\ Done(r) /\ Threw(r)
    /\ MirrorsAsked(r) = <<"ar5iv">>
    /\ answer[r].arxiv = NoResponse

====
